---- MODULE Spec2Model ----
(***************************************************************************)
(* Crossword Builder & Solver (src/src/App.tsx): slot extraction, crossing *)
(* constraints, the native MRV backtracking engine (solveJS), the          *)
(* Prolog-first dispatcher (solveFor) and the Prolog rules it consults.    *)
(*                                                                         *)
(* Grids are sequences of rows of cells; the source's 0-based indices are  *)
(* kept (g[r][c] of the source is At(g, r, c) here).  Words are sequences  *)
(* of one-character strings; w[i] of the source is CharAt(w, i).           *)
(***************************************************************************)
EXTENDS Integers, Sequences, FiniteSets, TLC

VARIABLES
  grid,      \* g, the grid a call is given
  wordList,  \* wordList, the words a call is given
  pc,        \* where the call is
  slots,     \* const slots of the call
  crosses,   \* const crosses of the call
  result,    \* what the call returned (or that it threw)
  engine,    \* the path that produced result
  tauReady,  \* _tauReady: "unset" (null), "pending", or settled to "pl" / "null"
  loads,     \* how many times the body of ensureTauProlog has started
  queried,   \* session.query has been called
  liveAssignment, \* const assignment of the running solveJS
  liveUsed,  \* const used of the running solveJS
  stack,     \* the pending invocations of backtrack, innermost last
  calls,     \* how many calls this process has started
  observed,  \* what the calls resumed from await ensureTauProlog() with
  others,    \* other solveFor calls waiting in await ensureTauProlog()
  solved,    \* the solved state of the component: <<>> (null) or <<grid>>
  busy,      \* the busy state of the component
  captured   \* what the pending onSolve closed over: <<>> or <<[grid, words]>>

vars ==
  <<grid, wordList, pc, slots, crosses, result, engine, tauReady, loads, queried,
    liveAssignment, liveUsed, stack, calls, observed, others, solved,
    busy, captured>>

-----------------------------------------------------------------------------
(* Bounds of the model *)

\* Slot extraction is explored on every blocked/open pattern of every
\* rectangle with at most MaxCells cells.
MaxCells == 12

\* The engines are explored on every grid of SolveRows x SolveCols cells
\* with at most MaxFixed pre-filled cells, with every word list of at most
\* MaxWords entries drawn from WordPool, and on the inputs of the built-in
\* tests.
SolveRows == 2

SolveCols == 3

MaxFixed == 1

MaxWords == 3

\* Grids whose rows differ in length are explored with SolveRows rows of 1
\* to RaggedCols cells each, with word lists of at most FewWords entries.
RaggedCols == 3

FewWords == 2

\* Raw word lists of at most FewWords entries are explored on every pattern
\* of the square of RawSide x RawSide cells.
RawSide == 2

\* A process makes at most MaxCalls calls one after the other.
MaxCalls == 2

\* At most MaxOthers further solveFor calls wait for the evaluator at once.
MaxOthers == 2

-----------------------------------------------------------------------------
(* Values *)

\* Cell.ch is optional: NoCh stands for an absent ch (undefined)
NoCh == ""

Letters == {"A", "B"}

\* String.prototype.toUpperCase on one character
ToUpper(ch) ==
  CASE ch = "a" -> "A"
    [] ch = "b" -> "B"
    [] OTHER -> ch

\* /[A-Z]/.test(ch) on one character
IsAZ(ch) == ch \in {"A", "B", "C", "D", "E", "F", "G", "H", "O", "T", "X"}

OpenCell == [blocked |-> FALSE, ch |-> NoCh]

BlockedCell == [blocked |-> TRUE, ch |-> NoCh]

\* make2D(rows, cols, fill)
make2D(rows, cols, fill) == [r \in 1..rows |-> [c \in 1..cols |-> fill]]

NRows(g) == Len(g)

\* g[0].length: the width every scan of the source uses
NCols(g) == Len(g[1])

At(g, r, c) == g[r + 1][c + 1]

\* w[i] of the source: undefined outside the word
CharAt(w, i) == IF i >= 0 /\ i < Len(w) THEN w[i + 1] ELSE "undefined"

Range(f) == {f[x] : x \in DOMAIN f}

-----------------------------------------------------------------------------
(* computeSlots *)

RECURSIVE SkipBlockedH(_, _, _)
SkipBlockedH(g, r, c) ==
  IF c < NCols(g) /\ At(g, r, c).blocked THEN SkipBlockedH(g, r, c + 1) ELSE c

RECURSIVE SkipOpenH(_, _, _)
SkipOpenH(g, r, c) ==
  IF c < NCols(g) /\ ~At(g, r, c).blocked THEN SkipOpenH(g, r, c + 1) ELSE c

\* the inner while of the horizontal scan of row r, from column c;
\* st = [slots, id] are the locals slots and id of computeSlots
RECURSIVE ScanRow(_, _, _, _)
ScanRow(g, r, c, st) ==
  IF c < NCols(g)
  THEN LET start == SkipBlockedH(g, r, c)
           end == SkipOpenH(g, r, start)
           len == end - start
       IN ScanRow(g, r, end,
            IF len >= 2
            THEN [slots |-> Append(st.slots,
                     [id |-> st.id, r |-> r, c |-> start, len |-> len, dir |-> "H"]),
                  id |-> st.id + 1]
            ELSE st)
  ELSE st

RECURSIVE ScanRows(_, _, _)
ScanRows(g, r, st) ==
  IF r < NRows(g) THEN ScanRows(g, r + 1, ScanRow(g, r, 0, st)) ELSE st

RECURSIVE SkipBlockedV(_, _, _)
SkipBlockedV(g, r, c) ==
  IF r < NRows(g) /\ At(g, r, c).blocked THEN SkipBlockedV(g, r + 1, c) ELSE r

RECURSIVE SkipOpenV(_, _, _)
SkipOpenV(g, r, c) ==
  IF r < NRows(g) /\ ~At(g, r, c).blocked THEN SkipOpenV(g, r + 1, c) ELSE r

\* the inner while of the vertical scan of column c, from row r
RECURSIVE ScanCol(_, _, _, _)
ScanCol(g, c, r, st) ==
  IF r < NRows(g)
  THEN LET start == SkipBlockedV(g, r, c)
           end == SkipOpenV(g, start, c)
           len == end - start
       IN ScanCol(g, c, end,
            IF len >= 2
            THEN [slots |-> Append(st.slots,
                     [id |-> st.id, r |-> start, c |-> c, len |-> len, dir |-> "V"]),
                  id |-> st.id + 1]
            ELSE st)
  ELSE st

RECURSIVE ScanCols(_, _, _)
ScanCols(g, c, st) ==
  IF c < NCols(g) THEN ScanCols(g, c + 1, ScanCol(g, c, 0, st)) ELSE st

\* computeSlots without its vertical scan
computeSlotsHorizontalOnly(g) ==
  ScanRows(g, 0, [slots |-> <<>>, id |-> 0]).slots

\* computeSlots with the two scans exchanged
computeSlotsVerticalFirst(g) ==
  ScanRows(g, 0, ScanCols(g, 0, [slots |-> <<>>, id |-> 0])).slots

computeSlots(g) ==
  ScanCols(g, 0, ScanRows(g, 0, [slots |-> <<>>, id |-> 0])).slots

\* the scans read g[r][c] for every c < g[0].length: in a row shorter than
\* row 0 that is undefined, and reading its .blocked throws a TypeError
computeSlotsThrows(g) == \E r \in 1..Len(g) : Len(g[r]) < Len(g[1])

-----------------------------------------------------------------------------
(* buildCrosses *)

\* the coordinate of offset k of slot s (rr, cc of the source)
CellOf(s, k) ==
  IF s.dir = "H" THEN <<s.r, s.c + k>> ELSE <<s.r + k, s.c>>

\* mark keyed by a fresh key on every put: no coordinate ever collects two
MarkPutFresh(mark, key, e) == Append(mark, [key |-> key, arr |-> <<e>>])

\* mark.get(key) ?? [] ; arr.push(e) ; mark.set(key, arr): a Map keeps its
\* keys in order of first insertion, so mark is a sequence of entries
MarkPut(mark, key, e) ==
  IF \E i \in 1..Len(mark) : mark[i].key = key
  THEN [i \in 1..Len(mark) |->
          IF mark[i].key = key
          THEN [key |-> key, arr |-> Append(mark[i].arr, e)]
          ELSE mark[i]]
  ELSE Append(mark, [key |-> key, arr |-> <<e>>])

RECURSIVE MarkSlot(_, _, _)
MarkSlot(mark, s, k) ==
  IF k < s.len
  THEN MarkSlot(MarkPut(mark, CellOf(s, k), [slotId |-> s.id, off |-> k]), s, k + 1)
  ELSE mark

RECURSIVE MarkAll(_, _, _)
MarkAll(mark, ss, n) ==
  IF n <= Len(ss) THEN MarkAll(MarkSlot(mark, ss[n], 0), ss, n + 1) ELSE mark

\* the double loop over one arr: i from 0, j from i + 1
RECURSIVE PairsOf(_, _, _, _)
PairsOf(arr, i, j, acc) ==
  IF i > Len(arr) THEN acc
  ELSE IF j > Len(arr) THEN PairsOf(arr, i + 1, i + 2, acc)
  ELSE PairsOf(arr, i, j + 1,
         Append(acc, [a |-> arr[i].slotId, ia |-> arr[i].off,
                      b |-> arr[j].slotId, ib |-> arr[j].off]))

RECURSIVE EmitCrosses(_, _, _)
EmitCrosses(mark, n, acc) ==
  IF n > Len(mark) THEN acc
  ELSE EmitCrosses(mark, n + 1,
         IF Len(mark[n].arr) < 2 THEN acc ELSE PairsOf(mark[n].arr, 1, 2, acc))

\* buildCrosses pushing the later entry of a pair as a and the earlier as b
buildCrossesSwapped(ss) ==
  LET cs == EmitCrosses(MarkAll(<<>>, ss, 1), 1, <<>>)
  IN [n \in 1..Len(cs) |->
        [a |-> cs[n].b, ia |-> cs[n].ib, b |-> cs[n].a, ib |-> cs[n].ia]]

buildCrosses(ss) == EmitCrosses(MarkAll(<<>>, ss, 1), 1, <<>>)

-----------------------------------------------------------------------------
(* solveJS: the native engine (MRV backtracking) *)

\* s back to front
RECURSIVE Reverse(_)
Reverse(s) == IF s = <<>> THEN <<>> ELSE Append(Reverse(Tail(s)), Head(s))

\* byLen with every bucket in the reverse of the list's order
byLenReversed(wl, L) == Reverse(SelectSeq(wl, LAMBDA w : Len(w) = L))

\* byLen.get(L) ?? []: the words of length L, in the order of the list
byLen(wl, L) == SelectSeq(wl, LAMBDA w : Len(w) = L)

\* the ch of the cell under offset k of slot s, upper-cased
FixedCh(g, s, k) == ToUpper(At(g, CellOf(s, k)[1], CellOf(s, k)[2]).ch)

\* fixed.get(s.id): offset -> required letter, from the pre-filled cells
fixed(g, s) ==
  [k \in {j \in 0..(s.len - 1) : FixedCh(g, s, j) # NoCh /\ IsAZ(FixedCh(g, s, j))}
     |-> FixedCh(g, s, k)]

\* crossingMap.get(id): one reference per constraint end that names id
RECURSIVE crossingMap(_, _, _)
crossingMap(cs, id, n) ==
  IF n > Len(cs) THEN <<>>
  ELSE (IF cs[n].a = id
        THEN <<[otherId |-> cs[n].b, idxThis |-> cs[n].ia, idxOther |-> cs[n].ib]>>
        ELSE <<>>)
       \o (IF cs[n].b = id
           THEN <<[otherId |-> cs[n].a, idxThis |-> cs[n].ib, idxOther |-> cs[n].ia]>>
           ELSE <<>>)
       \o crossingMap(cs, id, n + 1)

\* the filter of domainFor on one word w
DomainKeeps(cx, s, assignment, w) ==
  /\ \A i \in DOMAIN fixed(cx.g, s) : CharAt(w, i) = fixed(cx.g, s)[i]
  /\ \A n \in 1..Len(crossingMap(cx.crosses, s.id, 1)) :
       LET x == crossingMap(cx.crosses, s.id, 1)[n]
       IN x.otherId \in DOMAIN assignment =>
            CharAt(assignment[x.otherId], x.idxOther) = CharAt(w, x.idxThis)

\* domainFor ignoring the pre-filled letters of the slot
domainForNoFixed(cx, s, assignment, used) ==
  SelectSeq(SelectSeq(byLen(cx.wordList, s.len), LAMBDA w : w \notin used),
            LAMBDA w :
              \A n \in 1..Len(crossingMap(cx.crosses, s.id, 1)) :
                LET x == crossingMap(cx.crosses, s.id, 1)[n]
                IN x.otherId \in DOMAIN assignment =>
                     CharAt(assignment[x.otherId], x.idxOther) = CharAt(w, x.idxThis))

\* domainFor without the used-word filter
domainForReuse(cx, s, assignment, used) ==
  SelectSeq(byLen(cx.wordList, s.len),
            LAMBDA w : DomainKeeps(cx, s, assignment, w))

\* cx = [g, slots, crosses, wordList] are the locals of solveJS that
\* domainFor, pickNext and backtrack close over
domainFor(cx, s, assignment, used) ==
  SelectSeq(SelectSeq(byLen(cx.wordList, s.len), LAMBDA w : w \notin used),
            LAMBDA w : DomainKeeps(cx, s, assignment, w))

\* the for loop of pickNext from slot index i; best is <<>> (null) or
\* <<[s, size]>>; the result is <<>> (null) or <<s>>
RECURSIVE PickLoop(_, _, _, _, _)
PickLoop(cx, assignment, used, i, best) ==
  IF i > Len(cx.slots)
  THEN IF best = <<>> THEN <<>> ELSE <<best[1].s>>
  ELSE LET s == cx.slots[i]
           size == Len(domainFor(cx, s, assignment, used))
       IN IF s.id \in DOMAIN assignment
          THEN PickLoop(cx, assignment, used, i + 1, best)
          ELSE IF size = 0
          THEN <<s>>
          ELSE PickLoop(cx, assignment, used, i + 1,
                 IF best = <<>> \/ size < best[1].size
                 THEN <<[s |-> s, size |-> size]>>
                 ELSE best)

\* the for loop of pickNext with size <= best.size: the last of the
\* smallest domains wins
RECURSIVE PickLoopLastTie(_, _, _, _, _)
PickLoopLastTie(cx, assignment, used, i, best) ==
  IF i > Len(cx.slots)
  THEN IF best = <<>> THEN <<>> ELSE <<best[1].s>>
  ELSE LET s == cx.slots[i]
           size == Len(domainFor(cx, s, assignment, used))
       IN IF s.id \in DOMAIN assignment
          THEN PickLoopLastTie(cx, assignment, used, i + 1, best)
          ELSE IF size = 0
          THEN <<s>>
          ELSE PickLoopLastTie(cx, assignment, used, i + 1,
                 IF best = <<>> \/ size <= best[1].size
                 THEN <<[s |-> s, size |-> size]>>
                 ELSE best)

pickNextLastTie(cx, assignment, used) ==
  PickLoopLastTie(cx, assignment, used, 1, <<>>)

pickNext(cx, assignment, used) == PickLoop(cx, assignment, used, 1, <<>>)

\* delete assignment[id]
Unassign(assignment, id) ==
  [x \in (DOMAIN assignment) \ {id} |-> assignment[x]]

RECURSIVE backtrack(_, _, _)
RECURSIVE TryWords(_, _, _, _, _, _)

\* the for loop of backtrack over dom, from index i
TryWords(cx, s, dom, i, assignment, used) ==
  IF i > Len(dom)
  THEN [ok |-> FALSE, assignment |-> assignment, used |-> used]
  ELSE LET w == dom[i]
           r == backtrack(cx, (s.id :> w) @@ assignment, used \cup {w})
       IN IF r.ok THEN r
          ELSE TryWords(cx, s, dom, i + 1,
                 Unassign(r.assignment, s.id), r.used \ {w})

\* backtrack that gives up after the first candidate of a slot
backtrackFirstOnly(cx, assignment, used) ==
  LET p == pickNext(cx, assignment, used)
  IN IF p = <<>>
     THEN [ok |-> TRUE, assignment |-> assignment, used |-> used]
     ELSE LET dom == domainFor(cx, p[1], assignment, used)
          IN IF Len(dom) = 0
             THEN [ok |-> FALSE, assignment |-> assignment, used |-> used]
             ELSE backtrack(cx, (p[1].id :> dom[1]) @@ assignment,
                            used \cup {dom[1]})

\* assignment and used are the two mutable locals; the result carries
\* their values at return
backtrack(cx, assignment, used) ==
  LET p == pickNext(cx, assignment, used)
  IN IF p = <<>>
     THEN [ok |-> TRUE, assignment |-> assignment, used |-> used]
     ELSE LET dom == domainFor(cx, p[1], assignment, used)
          IN IF Len(dom) = 0
             THEN [ok |-> FALSE, assignment |-> assignment, used |-> used]
             ELSE TryWords(cx, p[1], dom, 1, assignment, used)

\* a returned value of solve: kind is "none" (null), "mapping" or "thrown"
None == [kind |-> "none", m |-> <<>>]

Mapped(m) == [kind |-> "mapping", m |-> m]

Thrown == [kind |-> "thrown", m |-> <<>>]

solveJS(g, wl) ==
  LET ss == computeSlots(g)
      cx == [g |-> g, slots |-> ss, crosses |-> buildCrosses(ss), wordList |-> wl]
      r == backtrack(cx, <<>>, {})
  IN IF computeSlotsThrows(g) THEN Thrown
     ELSE IF Len(ss) = 0 THEN None
     ELSE IF r.ok THEN Mapped(r.assignment) ELSE None

-----------------------------------------------------------------------------
(* PROLOG_RULES and the facts solveFor consults, read as ISO Prolog *)

\* the facts text: slot(Id,R,C,Dir,Len). cross(A,IA,B,IB). word('W').
facts(ss, cs, wl) ==
  [slot |-> [i \in 1..Len(ss) |->
               [id |-> ss[i].id, r |-> ss[i].r, c |-> ss[i].c,
                d |-> IF ss[i].dir = "H" THEN "h" ELSE "v", len |-> ss[i].len]],
   cross |-> cs,
   word |-> wl]

\* fit_word(W, Len) :- atom_length(W, Len).
fit_word(w, len) == Len(w) = len

\* all_different/1 on the list of assigned words
RECURSIVE all_different(_)
all_different(ws) ==
  IF ws = <<>> THEN TRUE
  ELSE /\ \A i \in 2..Len(ws) : ws[i] # ws[1]
       /\ all_different(Tail(ws))

\* nth0(I, Cs, X): fails outside the list
nth0Holds(i, w, x) == i >= 0 /\ i < Len(w) /\ w[i + 1] = x

\* consistent/1: every cross fact holds of the assigned words
consistent(fs, assigns) ==
  \A n \in 1..Len(fs.cross) :
    \E i, j \in 1..Len(assigns) :
      /\ assigns[i].id = fs.cross[n].a
      /\ assigns[j].id = fs.cross[n].b
      /\ \E x \in Range(assigns[i].w) :
           /\ nth0Holds(fs.cross[n].ia, assigns[i].w, x)
           /\ nth0Holds(fs.cross[n].ib, assigns[j].w, x)

\* solve/1, first answer: maplist(assign, Slots, Assigns) enumerates, slot by
\* slot in fact order, the word facts of the slot's length in fact order;
\* all_different and consistent test each complete list.  The result is
\* <<>> (no answer) or <<Assigns>>.
RECURSIVE prologSolve(_, _, _, _)
prologSolve(fs, i, j, assigns) ==
  IF i > Len(fs.slot)
  THEN IF all_different([n \in 1..Len(assigns) |-> assigns[n].w])
          /\ consistent(fs, assigns)
       THEN <<assigns>> ELSE <<>>
  ELSE IF j > Len(fs.word) THEN <<>>
  ELSE LET sub == IF fit_word(fs.word[j], fs.slot[i].len)
                  THEN prologSolve(fs, i + 1, 1,
                         Append(assigns, [id |-> fs.slot[i].id, w |-> fs.word[j]]))
                  ELSE <<>>
       IN IF sub # <<>> THEN sub ELSE prologSolve(fs, i, j + 1, assigns)

\* the while loop over the answer list: mapping[id] = word
RECURSIVE decodeAssigns(_, _, _)
decodeAssigns(assigns, n, mapping) ==
  IF n > Len(assigns) THEN mapping
  ELSE decodeAssigns(assigns, n + 1, (assigns[n].id :> assigns[n].w) @@ mapping)

\* what the answer callback resolves with when the query is answered
queryAnswer(ss, cs, wl) ==
  LET ans == prologSolve(facts(ss, cs, wl), 1, 1, <<>>)
  IN IF ans = <<>> THEN None ELSE Mapped(decodeAssigns(ans[1], 1, <<>>))

-----------------------------------------------------------------------------
(* solveFor and ensureTauProlog *)

\* what solveFor returns when ensureTauProlog yields null, left undone
fallbackMissing(g, wl) == None

\* solveFor, lines 301-303: if (!pl) return solveJS(g, wordList)
fallback(g, wl) == solveJS(g, wl)

\* a direct call of the native engine
CallSolveJS ==
  /\ pc = "idle"
  /\ result' = solveJS(grid, wordList)
  /\ engine' = IF computeSlotsThrows(grid) THEN "typeError" ELSE "js"
  /\ pc' = "done"
  /\ UNCHANGED <<grid, wordList, slots, crosses, tauReady, loads, queried>>
  /\ UNCHANGED <<liveAssignment, liveUsed, stack, calls, observed, others, solved>>
  /\ UNCHANGED <<busy, captured>>

\* ensureTauProlog starting its body again after it has yielded null
ensureStartedRetry == IF tauReady \in {"unset", "null"} THEN "pending" ELSE tauReady

\* ensureTauProlog up to its first await: the body starts only while
\* _tauReady is unset
ensureStarted == IF tauReady = "unset" THEN "pending" ELSE tauReady

\* solveFor asking for the evaluator before it looks at the slots
SolveForEnterEager ==
  /\ pc = "idle"
  /\ slots' = computeSlots(grid)
  /\ tauReady' = ensureStarted
  /\ loads' = IF tauReady = "unset" THEN loads + 1 ELSE loads
  /\ IF Len(computeSlots(grid)) = 0
     THEN /\ result' = None
          /\ engine' = "noSlots"
          /\ pc' = "done"
     ELSE /\ pc' = "awaitTau"
          /\ UNCHANGED <<result, engine>>
  /\ UNCHANGED <<grid, wordList, crosses, queried>>
  /\ UNCHANGED <<liveAssignment, liveUsed, stack, calls, observed, others, solved>>
  /\ UNCHANGED <<busy, captured>>

\* solveFor up to its first await
SolveForEnter ==
  /\ pc = "idle"
  /\ IF computeSlotsThrows(grid)
     THEN /\ result' = Thrown
          /\ engine' = "typeError"
          /\ pc' = "done"
          /\ UNCHANGED <<slots, tauReady, loads>>
     ELSE IF Len(computeSlots(grid)) = 0
     THEN /\ slots' = computeSlots(grid)
          /\ result' = None
          /\ engine' = "noSlots"
          /\ pc' = "done"
          /\ UNCHANGED <<tauReady, loads>>
     ELSE /\ slots' = computeSlots(grid)
          /\ pc' = "awaitTau"
          /\ tauReady' = ensureStarted
          /\ loads' = IF tauReady = "unset" THEN loads + 1 ELSE loads
          /\ UNCHANGED <<result, engine>>
  /\ UNCHANGED <<grid, wordList, crosses, queried>>
  /\ UNCHANGED <<liveAssignment, liveUsed, stack, calls, observed, others, solved>>
  /\ UNCHANGED <<busy, captured>>

\* the body of ensureTauProlog settles: pl only if the core script loads,
\* window.pl is defined and the lists script loads; otherwise null
TauSettles(coreLoaded, plDefined, listsLoaded) ==
  /\ tauReady = "pending"
  /\ tauReady' = IF coreLoaded /\ plDefined /\ listsLoaded THEN "pl" ELSE "null"
  /\ UNCHANGED <<grid, wordList, pc, slots, crosses, result, engine, loads, queried>>
  /\ UNCHANGED <<liveAssignment, liveUsed, stack, calls, observed, others, solved>>
  /\ UNCHANGED <<busy, captured>>

\* solveFor after await ensureTauProlog()
SolveForResume ==
  /\ pc = "awaitTau"
  /\ tauReady \in {"pl", "null"}
  /\ IF tauReady = "null"
     THEN /\ result' = fallback(grid, wordList)
          /\ engine' = "fallback"
          /\ pc' = "done"
          /\ UNCHANGED crosses
     ELSE /\ crosses' = buildCrosses(slots)
          /\ pc' = "consult"
          /\ UNCHANGED <<result, engine>>
  /\ UNCHANGED <<grid, wordList, slots, tauReady, loads, queried>>
  /\ observed' = observed \cup {tauReady}
  /\ UNCHANGED <<liveAssignment, liveUsed, stack, calls, others, solved>>
  /\ UNCHANGED <<busy, captured>>

\* session.consult settles: success resolves, error rejects and the await
\* throws out of solveFor
Consult(ok) ==
  /\ pc = "consult"
  /\ IF ok
     THEN /\ pc' = "query"
          /\ UNCHANGED <<result, engine>>
     ELSE /\ result' = Thrown
          /\ engine' = "consultError"
          /\ pc' = "done"
  /\ UNCHANGED <<grid, wordList, slots, crosses, tauReady, loads, queried>>
  /\ UNCHANGED <<liveAssignment, liveUsed, stack, calls, observed, others, solved>>
  /\ UNCHANGED <<busy, captured>>

\* session.query settles: the error callback, and an answer that is no
\* substitution, resolve null; an answered query resolves queryAnswer
Query(outcome) ==
  /\ pc = "query"
  /\ queried' = TRUE
  /\ pc' = "done"
  /\ IF outcome = "answer"
     THEN /\ result' = queryAnswer(slots, crosses, wordList)
          /\ engine' = "prolog"
     ELSE /\ result' = None
          /\ engine' = "queryError"
  /\ UNCHANGED <<grid, wordList, slots, crosses, tauReady, loads>>
  /\ UNCHANGED <<liveAssignment, liveUsed, stack, calls, observed, others, solved>>
  /\ UNCHANGED <<busy, captured>>

-----------------------------------------------------------------------------
(* The inputs of a call *)

WordPool == {<<"A", "A">>, <<"A", "B">>, <<"B", "A">>, <<"A", "B", "A">>}

WordLists == UNION {[1..n -> WordPool] : n \in 0..MaxWords}

FilledCell(l) == [blocked |-> FALSE, ch |-> l]

\* how many cells of g carry a letter
NFixed(g) ==
  Cardinality({x \in (1..Len(g)) \X (1..Len(g[1])) : g[x[1]][x[2]].ch # NoCh})

SolveGrids ==
  {g \in [1..SolveRows -> [1..SolveCols ->
            {OpenCell, BlockedCell} \cup {FilledCell(l) : l \in Letters}]] :
     NFixed(g) <= MaxFixed}

\* runBuiltInTests: g1 with w1 and w2, g2, g3
g1 ==
  [r \in 1..3 |-> [c \in 1..3 |->
     IF r = 2 /\ c \in {1, 3} THEN BlockedCell ELSE OpenCell]]

w1 == <<<<"C", "A", "T">>, <<"D", "O", "G">>, <<"A", "X", "O">>>>

w2 == <<<<"C", "A", "T">>, <<"D", "O", "G">>, <<"A", "A", "A">>>>

TestInputs ==
  {<<g1, w1>>,
   <<g1, w2>>,
   <<make2D(2, 2, BlockedCell), <<<<"A", "A">>>>>>,
   <<make2D(1, 4, OpenCell),
     <<<<"A", "B", "C", "D">>, <<"E", "F", "G", "H">>>>>>}

Inputs == (SolveGrids \X WordLists) \cup TestInputs

Init ==
  /\ \E x \in Inputs : grid = x[1] /\ wordList = x[2]
  /\ pc = "idle"
  /\ slots = <<>>
  /\ crosses = <<>>
  /\ result = None
  /\ engine = "-"
  /\ tauReady = "unset"
  /\ loads = 0
  /\ queried = FALSE
  /\ liveAssignment = <<>>
  /\ liveUsed = {}
  /\ stack = <<>>
  /\ calls = 1
  /\ observed = {}
  /\ others = 0
  /\ solved = <<>>
  /\ busy = FALSE
  /\ captured = <<>>

Next ==
  \/ CallSolveJS
  \/ SolveForEnter
  \/ \E a, b, c \in BOOLEAN : TauSettles(a, b, c)
  \/ SolveForResume
  \/ \E ok \in BOOLEAN : Consult(ok)
  \/ \E o \in {"answer", "parseError", "runtimeError"} : Query(o)

Spec == Init /\ [][Next]_vars

-----------------------------------------------------------------------------
(* Slot extraction explored on its own: every pattern, then both functions *)

Shapes(n) == {d \in (1..n) \X (1..n) : d[1] * d[2] <= n}

Patterns(n) ==
  UNION {[1..d[1] -> [1..d[2] -> {OpenCell, BlockedCell}]] : d \in Shapes(n)}

InitSlots ==
  /\ grid \in Patterns(MaxCells)
  /\ wordList = <<>>
  /\ pc = "start"
  /\ slots = <<>>
  /\ crosses = <<>>
  /\ result = None
  /\ engine = "-"
  /\ tauReady = "unset"
  /\ loads = 0
  /\ queried = FALSE
  /\ liveAssignment = <<>>
  /\ liveUsed = {}
  /\ stack = <<>>
  /\ calls = 1
  /\ observed = {}
  /\ others = 0
  /\ solved = <<>>
  /\ busy = FALSE
  /\ captured = <<>>

ComputeSlotsStep ==
  /\ pc = "start"
  /\ slots' = computeSlots(grid)
  /\ pc' = "slotted"
  /\ UNCHANGED <<grid, wordList, crosses, result, engine, tauReady, loads, queried>>
  /\ UNCHANGED <<liveAssignment, liveUsed, stack, calls, observed, others, solved>>
  /\ UNCHANGED <<busy, captured>>

BuildCrossesStep ==
  /\ pc = "slotted"
  /\ crosses' = buildCrosses(slots)
  /\ pc' = "crossed"
  /\ UNCHANGED <<grid, wordList, slots, result, engine, tauReady, loads, queried>>
  /\ UNCHANGED <<liveAssignment, liveUsed, stack, calls, observed, others, solved>>
  /\ UNCHANGED <<busy, captured>>

NextSlots == ComputeSlotsStep \/ BuildCrossesStep

SpecSlots == InitSlots /\ [][NextSlots]_vars

\* the open cells (r, c) .. of a run of len cells from (r, c) along dr, dc
RunOpen(g, r, c, len, dr, dc) ==
  \A k \in 0..(len - 1) : ~At(g, r + k * dr, c + k * dc).blocked

InGrid(g, r, c) == r >= 0 /\ r < NRows(g) /\ c >= 0 /\ c < NCols(g)

\* a run is maximal when the cell before it and the cell after it are
\* outside the grid or blocked
RunMaximal(g, r, c, len, dr, dc) ==
  /\ ~InGrid(g, r - dr, c - dc) \/ At(g, r - dr, c - dc).blocked
  /\ ~InGrid(g, r + len * dr, c + len * dc)
       \/ At(g, r + len * dr, c + len * dc).blocked

\* every maximal open run of length >= 2 of g, as origin, length, direction
MaximalRuns(g) ==
  LET n == IF NRows(g) > NCols(g) THEN NRows(g) ELSE NCols(g)
  IN {x \in [r : 0..(NRows(g) - 1), c : 0..(NCols(g) - 1), len : 2..n,
             dir : {"H", "V"}] :
        LET dr == IF x.dir = "V" THEN 1 ELSE 0
            dc == IF x.dir = "H" THEN 1 ELSE 0
        IN /\ InGrid(g, x.r + (x.len - 1) * dr, x.c + (x.len - 1) * dc)
           /\ RunOpen(g, x.r, x.c, x.len, dr, dc)
           /\ RunMaximal(g, x.r, x.c, x.len, dr, dc)}

Place(s) == [r |-> s.r, c |-> s.c, len |-> s.len, dir |-> s.dir]

\* C7: the slots computeSlots returns are exactly the maximal open runs of
\* length >= 2 along a row or a column, each once: no run of length 0 or 1
\* and no proper part of a longer run is a slot.
C7_SlotsAreMaximalRuns ==
  pc \in {"slotted", "crossed"} =>
    /\ {Place(slots[i]) : i \in 1..Len(slots)} = MaximalRuns(grid)
    /\ Cardinality({Place(slots[i]) : i \in 1..Len(slots)}) = Len(slots)

\* a row with two slots, a lone open cell with no slot, and a vertical slot
C7_Witness ==
  /\ pc = "slotted"
  /\ \E i, j \in 1..Len(slots) :
       /\ slots[i].dir = "H" /\ slots[j].dir = "H"
       /\ slots[i].r = slots[j].r /\ slots[i].c < slots[j].c
  /\ \E i \in 1..Len(slots) : slots[i].dir = "V"
  /\ \E r \in 0..(NRows(grid) - 1), c \in 0..(NCols(grid) - 1) :
       /\ ~At(grid, r, c).blocked
       /\ \A i \in 1..Len(slots) : \A k \in 0..(slots[i].len - 1) :
            CellOf(slots[i], k) # <<r, c>>

\* the scan key of a slot: horizontal before vertical, then row-major for
\* horizontal slots and column-major for vertical ones
ScanKey(s) ==
  IF s.dir = "H" THEN <<0, s.r, s.c>> ELSE <<1, s.c, s.r>>

LexLess(x, y) ==
  \/ x[1] < y[1]
  \/ x[1] = y[1] /\ x[2] < y[2]
  \/ x[1] = y[1] /\ x[2] = y[2] /\ x[3] < y[3]

\* C8: ids are 0..n-1 without gaps, horizontal slots first by row then
\* starting column, then vertical slots by column then starting row.
C8_IdsInScanOrder ==
  pc \in {"slotted", "crossed"} =>
    /\ \A i \in 1..Len(slots) : slots[i].id = i - 1
    /\ \A i, j \in 1..Len(slots) :
         i < j => LexLess(ScanKey(slots[i]), ScanKey(slots[j]))

\* two horizontal slots in different rows and two vertical slots in
\* different columns
C8_Witness ==
  /\ pc = "slotted"
  /\ \E i, j \in 1..Len(slots) :
       slots[i].dir = "H" /\ slots[j].dir = "H" /\ slots[i].r < slots[j].r
  /\ \E i, j \in 1..Len(slots) :
       slots[i].dir = "V" /\ slots[j].dir = "V" /\ slots[i].c < slots[j].c

\* the slot of ss with the given id
SlotById(ss, id) == CHOOSE s \in Range(ss) : s.id = id

\* two slots share a grid coordinate
Share(s, t) ==
  \E k \in 0..(s.len - 1), m \in 0..(t.len - 1) : CellOf(s, k) = CellOf(t, m)

\* C9: buildCrosses emits exactly one constraint per unordered pair of slots
\* sharing a coordinate, with ia and ib that coordinate's offsets in the two
\* slots; it emits nothing else.
C9_OneCrossPerSharingPair ==
  pc = "crossed" =>
    /\ \A i \in 1..Len(crosses) :
         LET x == crosses[i]
         IN /\ x.a # x.b
            /\ \E s, t \in Range(slots) :
                 /\ s.id = x.a /\ t.id = x.b
                 /\ x.ia \in 0..(s.len - 1) /\ x.ib \in 0..(t.len - 1)
                 /\ CellOf(s, x.ia) = CellOf(t, x.ib)
    /\ \A s, t \in Range(slots) :
         (s.id < t.id /\ Share(s, t)) =>
           Cardinality({i \in 1..Len(crosses) :
              {crosses[i].a, crosses[i].b} = {s.id, t.id}}) = 1
    /\ \A i, j \in 1..Len(crosses) :
         {crosses[i].a, crosses[i].b} = {crosses[j].a, crosses[j].b} => i = j

\* a grid with crossings at a non-zero offset and a slot that crosses nothing
C9_Witness ==
  /\ pc = "crossed"
  /\ Len(crosses) >= 2
  /\ \E i \in 1..Len(crosses) : crosses[i].ia > 0 /\ crosses[i].ib > 0
  /\ \E s \in Range(slots) :
       \A i \in 1..Len(crosses) : crosses[i].a # s.id /\ crosses[i].b # s.id

-----------------------------------------------------------------------------
(* Properties of the engines *)

SlotIds(ss) == {ss[i].id : i \in 1..Len(ss)}

\* word w has the length of slot s
FitsLength(s, w) == Len(w) = s.len

\* word w agrees with every letter already in the cells of slot s
FitsLetters(g, s, w) ==
  \A k \in 0..(s.len - 1) :
    LET ch == At(g, CellOf(s, k)[1], CellOf(s, k)[2]).ch
    IN ch # NoCh => (k < Len(w) /\ w[k + 1] = ch)

\* m gives every slot of ss one word of its length, no word twice, and the
\* two words of every constraint of cs agree at its offsets
ValidMapping(ss, cs, m) ==
  /\ DOMAIN m = SlotIds(ss)
  /\ \A i \in 1..Len(ss) : FitsLength(ss[i], m[ss[i].id])
  /\ \A i, j \in 1..Len(ss) : i # j => m[ss[i].id] # m[ss[j].id]
  /\ \A n \in 1..Len(cs) :
       CharAt(m[cs[n].a], cs[n].ia) = CharAt(m[cs[n].b], cs[n].ib)

\* some total assignment of listed words satisfies length, pre-filled
\* letters, distinctness and every crossing
Solvable(g, wl) ==
  LET ss == computeSlots(g)
      cs == buildCrosses(ss)
  IN \E m \in [SlotIds(ss) -> Range(wl)] :
       /\ ValidMapping(ss, cs, m)
       /\ \A i \in 1..Len(ss) : FitsLetters(g, ss[i], m[ss[i].id])

\* C1: a returned Mapping, from solveJS or from solveFor on either engine,
\* is defined on exactly the slot ids, gives each slot a word of its length,
\* uses no word twice and satisfies every crossing constraint.
C1_ReturnedMappingIsValid ==
  (pc = "done" /\ result.kind = "mapping") =>
    ValidMapping(computeSlots(grid), buildCrosses(computeSlots(grid)), result.m)

\* the declarative engine answered a grid of three slots and two crossings
C1_Witness ==
  /\ pc = "done"
  /\ engine = "prolog"
  /\ result.kind = "mapping"
  /\ Len(slots) >= 3
  /\ Len(crosses) >= 2

\* C2: on a grid with at least one slot solveJS returns none exactly when no
\* total assignment satisfies length, pre-filled letters, distinctness and
\* the crossings; the 3x3 cross grid is solved with CAT, DOG, AXO and is not
\* with CAT, DOG, AAA.
C2_NativeComplete ==
  (pc = "done" /\ engine = "js") =>
    /\ Len(computeSlots(grid)) >= 1 =>
         (result.kind = "none" <=> ~Solvable(grid, wordList))
    /\ result.kind # "thrown"
    /\ (grid = g1 /\ wordList = w1) => result.kind = "mapping"
    /\ (grid = g1 /\ wordList = w2) => result.kind = "none"

\* solveJS found a Mapping after the first candidate of the first slot it
\* picked had to be undone
C2_Witness ==
  /\ pc = "done"
  /\ engine = "js"
  /\ result.kind = "mapping"
  /\ LET ss == computeSlots(grid)
         cx == [g |-> grid, slots |-> ss, crosses |-> buildCrosses(ss),
                wordList |-> wordList]
         p == pickNext(cx, <<>>, {})
     IN /\ Len(buildCrosses(ss)) >= 1
        /\ result.m[p[1].id] # domainFor(cx, p[1], <<>>, {})[1]

\* C3: when ensureTauProlog yields null solveFor returns what solveJS
\* returns on the same input, and nothing is thrown.
C3_UnavailableFallsBack ==
  (pc = "done" /\ tauReady = "null") =>
    /\ result = solveJS(grid, wordList)
    /\ result.kind # "thrown"

\* the evaluator was unavailable and the call returned a Mapping
C3_Witness ==
  /\ pc = "done"
  /\ tauReady = "null"
  /\ engine = "fallback"
  /\ result.kind = "mapping"

\* C4: when the evaluator is available but consult or the query reports an
\* error, solveFor returns what solveJS returns on the same input.
C4_InternalFailureFallsBack ==
  (pc = "done" /\ engine \in {"consultError", "queryError"}) =>
    result = solveJS(grid, wordList)

\* C5: the declarative and the native engine agree on satisfiability of the
\* same input, pre-filled letters included.
C5_EnginesAgree ==
  (pc = "done" /\ engine = "prolog") =>
    (result.kind = "none" <=> solveJS(grid, wordList).kind = "none")

\* C6: a grid with no open run of length >= 2 is answered none, by solveJS
\* and by solveFor, and the evaluator is neither loaded nor queried.
C6_NoSlotsGivesNone ==
  MaximalRuns(grid) = {} =>
    /\ pc \in {"idle", "done"}
    /\ pc = "done" => result = None
    /\ loads = 0 /\ tauReady = "unset" /\ ~queried

\* solveFor answered a grid that has open cells but no slot, with words given
C6_Witness ==
  /\ pc = "done"
  /\ engine = "noSlots"
  /\ \E r \in 0..(NRows(grid) - 1), c \in 0..(NCols(grid) - 1) :
       ~At(grid, r, c).blocked
  /\ Len(wordList) >= 1

\* some slot has no listed word of its length that matches its pre-filled
\* letters
EmptyInitialDomain(g, wl) ==
  \E s \in Range(computeSlots(g)) :
    \A w \in Range(wl) : ~(FitsLength(s, w) /\ FitsLetters(g, s, w))

\* C10: if some slot starts with an empty domain, the call returns none
\* whichever engine handles it.
C10_EmptyDomainGivesNone ==
  (pc = "done" /\ engine \in {"js", "fallback", "prolog"}
     /\ EmptyInitialDomain(grid, wordList)) =>
    result = None

-----------------------------------------------------------------------------
(* Grids that are not rectangles *)

\* every row has the length of row 0
Rectangular(g) == \A r \in 1..Len(g) : Len(g[r]) = Len(g[1])

RaggedGrids ==
  {g \in [1..SolveRows ->
            UNION {[1..n -> {OpenCell, BlockedCell}] : n \in 1..RaggedCols}] :
     ~Rectangular(g)}

InitRagged ==
  /\ grid \in RaggedGrids
  /\ wordList \in {wl \in WordLists : Len(wl) <= FewWords}
  /\ pc = "idle"
  /\ slots = <<>>
  /\ crosses = <<>>
  /\ result = None
  /\ engine = "-"
  /\ tauReady = "unset"
  /\ loads = 0
  /\ queried = FALSE
  /\ liveAssignment = <<>>
  /\ liveUsed = {}
  /\ stack = <<>>
  /\ calls = 1
  /\ observed = {}
  /\ others = 0
  /\ solved = <<>>
  /\ busy = FALSE
  /\ captured = <<>>

SpecRagged == InitRagged /\ [][Next]_vars

\* C11: a grid with a row shorter or longer than row 0 is rejected with an
\* input error before any search; it is never answered none or with a
\* Mapping.
C11_RaggedGridRejected ==
  (pc = "done" /\ ~Rectangular(grid)) =>
    (result = Thrown /\ engine = "typeError")

-----------------------------------------------------------------------------
(* Word lists as typed, before the words memo has cleaned them *)

\* w.toUpperCase().replace(/[^A-Z]/g, "").trim() on one entry
normalizeWord(w) == SelectSeq([i \in 1..Len(w) |-> ToUpper(w[i])], IsAZ)

\* the words memo on the entries of wordsText: clean each, keep length >= 2
normalize(raw) ==
  SelectSeq([i \in 1..Len(raw) |-> normalizeWord(raw[i])], LAMBDA w : Len(w) >= 2)

RawPool ==
  {<<"a", "b">>, <<"A", "-", "B">>, <<"A">>, <<"A", "B">>, <<"B", "A">>}

RawLists == UNION {[1..n -> RawPool] : n \in 0..FewWords}

InitRaw ==
  /\ grid \in [1..RawSide -> [1..RawSide -> {OpenCell, BlockedCell}]]
  /\ wordList \in RawLists
  /\ pc = "idle"
  /\ slots = <<>>
  /\ crosses = <<>>
  /\ result = None
  /\ engine = "-"
  /\ tauReady = "unset"
  /\ loads = 0
  /\ queried = FALSE
  /\ liveAssignment = <<>>
  /\ liveUsed = {}
  /\ stack = <<>>
  /\ calls = 1
  /\ observed = {}
  /\ others = 0
  /\ solved = <<>>
  /\ busy = FALSE
  /\ captured = <<>>

SpecRaw == InitRaw /\ [][Next]_vars

\* C12: solve on a raw word list gives what solve gives on the normalized
\* list (upper-cased, characters outside A-Z removed, words shorter than 2
\* dropped), on the native and on the declarative path.
C12_EngineNormalizes ==
  pc = "done" =>
    /\ engine \in {"js", "fallback"} =>
         result = solveJS(grid, normalize(wordList))
    /\ engine = "prolog" =>
         result = queryAnswer(slots, crosses, normalize(wordList))

-----------------------------------------------------------------------------
(* solveJS step by step: one action per entry to, and return from, backtrack *)

\* the locals of the running solveJS that its inner functions close over
Cx == [g |-> grid, slots |-> slots, crosses |-> crosses, wordList |-> wordList]

\* the innermost pending invocation of backtrack: its locals s and dom, the
\* index i of the candidate its for loop is at (0 before the first), and
\* assignment and used as they were when it was entered (a0, u0)
Top == stack[Len(stack)]

Pop(st) == SubSeq(st, 1, Len(st) - 1)

\* solveJS with assignment and used kept from one call to the next
StartSearchShared ==
  /\ pc = "idle"
  /\ slots' = computeSlots(grid)
  /\ crosses' = buildCrosses(computeSlots(grid))
  /\ stack' = <<>>
  /\ engine' = "js"
  /\ IF Len(computeSlots(grid)) = 0
     THEN pc' = "done" /\ result' = None
     ELSE pc' = "enter" /\ UNCHANGED result
  /\ UNCHANGED <<liveAssignment, liveUsed>>
  /\ UNCHANGED <<grid, wordList, tauReady, loads, queried, calls, observed, others, solved>>
  /\ UNCHANGED <<busy, captured>>

\* solveJS up to its call of backtrack: slots, the early return, crosses,
\* and a new empty assignment and used
StartSearch ==
  /\ pc = "idle"
  /\ slots' = computeSlots(grid)
  /\ crosses' = buildCrosses(computeSlots(grid))
  /\ liveAssignment' = <<>>
  /\ liveUsed' = {}
  /\ stack' = <<>>
  /\ engine' = "js"
  /\ IF Len(computeSlots(grid)) = 0
     THEN pc' = "done" /\ result' = None
     ELSE pc' = "enter" /\ UNCHANGED result
  /\ UNCHANGED <<grid, wordList, tauReady, loads, queried, calls, observed, others, solved>>
  /\ UNCHANGED <<busy, captured>>

\* backtrack from its entry to the head of its for loop: pickNext, the
\* return of true when nothing is left, domainFor, the return of false on
\* an empty domain
BacktrackEnter ==
  /\ pc = "enter"
  /\ LET p == pickNext(Cx, liveAssignment, liveUsed)
     IN IF p = <<>>
        THEN pc' = "retTrue" /\ UNCHANGED stack
        ELSE LET dom == domainFor(Cx, p[1], liveAssignment, liveUsed)
             IN /\ stack' = Append(stack, [s |-> p[1], dom |-> dom, i |-> 0,
                                            a0 |-> liveAssignment, u0 |-> liveUsed])
                /\ pc' = IF Len(dom) = 0 THEN "retFalse" ELSE "loop"
  /\ UNCHANGED <<liveAssignment, liveUsed, slots, crosses, result, engine>>
  /\ UNCHANGED <<grid, wordList, tauReady, loads, queried, calls, observed, others, solved>>
  /\ UNCHANGED <<busy, captured>>

\* the for loop starting over from the first candidate when it has run out
TryNextStartsOver ==
  /\ pc = "loop"
  /\ IF Top.i < Len(Top.dom)
     THEN LET w == Top.dom[Top.i + 1]
          IN /\ liveAssignment' = (Top.s.id :> w) @@ liveAssignment
             /\ liveUsed' = liveUsed \cup {w}
             /\ stack' = [stack EXCEPT ![Len(stack)].i = @ + 1]
             /\ pc' = "enter"
     ELSE /\ stack' = [stack EXCEPT ![Len(stack)].i = 0]
          /\ pc' = "loop"
          /\ UNCHANGED <<liveAssignment, liveUsed>>
  /\ UNCHANGED <<slots, crosses, result, engine>>
  /\ UNCHANGED <<grid, wordList, tauReady, loads, queried, calls, observed, others, solved>>
  /\ UNCHANGED <<busy, captured>>

\* the head of the for loop: the next candidate is assigned and marked used
\* and backtrack is called, or the loop is over and false is returned
TryNext ==
  /\ pc = "loop"
  /\ IF Top.i < Len(Top.dom)
     THEN LET w == Top.dom[Top.i + 1]
          IN /\ liveAssignment' = (Top.s.id :> w) @@ liveAssignment
             /\ liveUsed' = liveUsed \cup {w}
             /\ stack' = [stack EXCEPT ![Len(stack)].i = @ + 1]
             /\ pc' = "enter"
     ELSE /\ pc' = "retFalse"
          /\ UNCHANGED <<liveAssignment, liveUsed, stack>>
  /\ UNCHANGED <<slots, crosses, result, engine>>
  /\ UNCHANGED <<grid, wordList, tauReady, loads, queried, calls, observed, others, solved>>
  /\ UNCHANGED <<busy, captured>>

\* ReturnFalse that leaves the word of the failed candidate in used
ReturnFalseKeepsUsed ==
  /\ pc = "retFalse"
  /\ stack' = Pop(stack)
  /\ IF Len(stack) = 1
     THEN /\ pc' = "done"
          /\ result' = None
          /\ UNCHANGED <<liveAssignment, liveUsed>>
     ELSE LET caller == stack[Len(stack) - 1]
          IN /\ liveAssignment' = Unassign(liveAssignment, caller.s.id)
             /\ UNCHANGED liveUsed
             /\ pc' = "loop"
             /\ UNCHANGED result
  /\ UNCHANGED <<slots, crosses, engine>>
  /\ UNCHANGED <<grid, wordList, tauReady, loads, queried, calls, observed, others, solved>>
  /\ UNCHANGED <<busy, captured>>

\* the innermost invocation returns false: solveJS returns null, or the
\* calling invocation deletes its candidate and goes on with its loop
ReturnFalse ==
  /\ pc = "retFalse"
  /\ stack' = Pop(stack)
  /\ IF Len(stack) = 1
     THEN /\ pc' = "done"
          /\ result' = None
          /\ UNCHANGED <<liveAssignment, liveUsed>>
     ELSE LET caller == stack[Len(stack) - 1]
          IN /\ liveAssignment' = Unassign(liveAssignment, caller.s.id)
             /\ liveUsed' = liveUsed \ {caller.dom[caller.i]}
             /\ pc' = "loop"
             /\ UNCHANGED result
  /\ UNCHANGED <<slots, crosses, engine>>
  /\ UNCHANGED <<grid, wordList, tauReady, loads, queried, calls, observed, others, solved>>
  /\ UNCHANGED <<busy, captured>>

\* true is returned through every pending invocation and solveJS returns
\* assignment
ReturnTrue ==
  /\ pc = "retTrue"
  /\ stack' = <<>>
  /\ pc' = "done"
  /\ result' = Mapped(liveAssignment)
  /\ UNCHANGED <<liveAssignment, liveUsed, slots, crosses, engine>>
  /\ UNCHANGED <<grid, wordList, tauReady, loads, queried, calls, observed, others, solved>>
  /\ UNCHANGED <<busy, captured>>

NextSearch ==
  \/ StartSearch
  \/ BacktrackEnter
  \/ TryNext
  \/ ReturnFalse
  \/ ReturnTrue

SpecSearch == Init /\ [][NextSearch]_vars

\* the search is under way
Searching == pc \in {"enter", "loop", "retFalse", "retTrue"}

\* the slots without a word
Unassigned == {s \in Range(slots) : s.id \notin DOMAIN liveAssignment}

\* the words assigned to slots other than s that constrain s through a
\* crossing, as (offset in s, required character)
AssignedCrossings(s) ==
  {<<x.idxThis, CharAt(liveAssignment[x.otherId], x.idxOther)>> :
     x \in {y \in Range(crossingMap(crosses, s.id, 1)) :
              y.otherId \in DOMAIN liveAssignment}}

\* C18: at every node of the search the partial assignment is consistent:
\* every assigned word has its slot's length and pre-filled letters, no
\* word is assigned twice and every crossing between two assigned slots
\* agrees; the domain of an unassigned slot is filtered by the assigned
\* crossing slots only.
C18_PartialAssignmentConsistent ==
  Searching =>
    /\ DOMAIN liveAssignment \subseteq SlotIds(slots)
    /\ \A s \in Range(slots) :
         s.id \in DOMAIN liveAssignment =>
           /\ FitsLength(s, liveAssignment[s.id])
           /\ FitsLetters(grid, s, liveAssignment[s.id])
    /\ \A i, j \in DOMAIN liveAssignment :
         i # j => liveAssignment[i] # liveAssignment[j]
    /\ \A n \in 1..Len(crosses) :
         (crosses[n].a \in DOMAIN liveAssignment
            /\ crosses[n].b \in DOMAIN liveAssignment) =>
           CharAt(liveAssignment[crosses[n].a], crosses[n].ia)
             = CharAt(liveAssignment[crosses[n].b], crosses[n].ib)
    /\ \A s \in Unassigned :
         Range(domainFor(Cx, s, liveAssignment, liveUsed))
           = {w \in Range(wordList) :
                /\ FitsLength(s, w)
                /\ FitsLetters(grid, s, w)
                /\ w \notin Range(liveAssignment)
                /\ \A x \in AssignedCrossings(s) : CharAt(w, x[1]) = x[2]}

\* backtrack is entered with two slots assigned across a crossing, one of
\* them over a pre-filled letter, and a slot still open that crosses an
\* assigned one
C18_Witness ==
  /\ pc = "enter"
  /\ \E n \in 1..Len(crosses) :
       crosses[n].a \in DOMAIN liveAssignment /\ crosses[n].b \in DOMAIN liveAssignment
  /\ \E s \in Range(slots) :
       s.id \in DOMAIN liveAssignment /\ DOMAIN fixed(grid, s) # {}
  /\ \E s \in Unassigned : AssignedCrossings(s) # {}

\* the size of the current domain of slot s
DomainSize(s) == Len(domainFor(Cx, s, liveAssignment, liveUsed))

\* C19: pickNext returns none exactly when every slot is assigned;
\* otherwise the lowest-id unassigned slot with an empty domain if there
\* is one, else the unassigned slot of smallest domain, lowest id on ties.
C19_PickNextIsMRV ==
  pc = "enter" =>
    LET p == pickNext(Cx, liveAssignment, liveUsed)
        empty == {s \in Unassigned : DomainSize(s) = 0}
    IN /\ (p = <<>>) <=> (Unassigned = {})
       /\ p # <<>> =>
            /\ p[1] \in Unassigned
            /\ empty # {} =>
                 (p[1] \in empty /\ \A s \in empty : p[1].id <= s.id)
            /\ empty = {} =>
                 \A s \in Unassigned :
                   \/ DomainSize(p[1]) < DomainSize(s)
                   \/ DomainSize(p[1]) = DomainSize(s) /\ p[1].id <= s.id

\* pickNext chose among non-empty domains: it passed over a lower-id slot
\* with a larger domain and took the first of two slots with the smallest
C19_Witness ==
  /\ pc = "enter"
  /\ \A s \in Unassigned : DomainSize(s) > 0
  /\ LET p == pickNext(Cx, liveAssignment, liveUsed)
     IN /\ p # <<>>
        /\ \E s \in Unassigned : s.id < p[1].id /\ DomainSize(s) > DomainSize(p[1])
        /\ \E s \in Unassigned : s.id > p[1].id /\ DomainSize(s) = DomainSize(p[1])

\* C20: an invocation of backtrack that returns false leaves assignment and
\* used as they were at its entry, so a failed solve ends with both empty;
\* throughout the search used is the set of assigned words and no word is
\* assigned to two slots.
C20_BacktrackUndoes ==
  /\ Searching =>
       /\ liveUsed = Range(liveAssignment)
       /\ Cardinality(liveUsed) = Cardinality(DOMAIN liveAssignment)
  /\ pc = "retFalse" =>
       (liveAssignment = Top.a0 /\ liveUsed = Top.u0)
  /\ (pc = "done" /\ engine = "js" /\ result = None /\ Len(slots) > 0) =>
       (liveAssignment = <<>> /\ liveUsed = {})

\* an invocation entered with a slot already assigned returns false after
\* it has tried and undone two candidates
C20_Witness ==
  /\ pc = "retFalse"
  /\ Len(stack) >= 2
  /\ Top.i >= 2
  /\ Top.a0 # <<>>

\* the words of wl that have the length of slot s and match the letters
\* already in its cells, in the order of wl
Fitting(g, s, wl) ==
  SelectSeq(wl, LAMBDA w : FitsLength(s, w) /\ FitsLetters(g, s, w))

\* C15: the candidates of a slot are tried in the order of the word list,
\* duplicates kept; on a grid with exactly one slot solveJS returns the
\* Mapping of that slot to the first listed word of its length that matches
\* its pre-filled letters, and ABCD for the open 1x4 row with ABCD, EFGH.
C15_FirstFittingWord ==
  /\ pc = "loop" =>
       Top.dom = SelectSeq(wordList, LAMBDA w : w \in Range(Top.dom))
  /\ (pc = "done" /\ Len(slots) = 1) =>
       LET fit == Fitting(grid, slots[1], wordList)
       IN result = IF fit = <<>> THEN None ELSE Mapped(slots[1].id :> fit[1])
  /\ (pc = "done" /\ grid = make2D(1, 4, OpenCell)
        /\ wordList = <<<<"A", "B", "C", "D">>, <<"E", "F", "G", "H">>>>) =>
       result = Mapped(0 :> <<"A", "B", "C", "D">>)

\* the only slot has a pre-filled letter; the first listed word of its
\* length does not match it, and of the two different words that do, the
\* one listed first is returned
C15_Witness ==
  /\ pc = "done"
  /\ Len(slots) = 1
  /\ DOMAIN fixed(grid, slots[1]) # {}
  /\ LET fit == Fitting(grid, slots[1], wordList)
     IN /\ Len(fit) = 2
        /\ fit[1] # fit[2]
        /\ byLen(wordList, slots[1].len)[1] # fit[1]
        /\ result = Mapped(slots[1].id :> fit[1])

-----------------------------------------------------------------------------
(* Calls one after the other in one process *)

CallInputs ==
  ([1..RawSide -> [1..RawSide -> {OpenCell, BlockedCell}]]
     \X {wl \in WordLists : Len(wl) <= FewWords})
  \cup TestInputs

InitCalls ==
  /\ \E x \in CallInputs : grid = x[1] /\ wordList = x[2]
  /\ pc = "idle"
  /\ slots = <<>>
  /\ crosses = <<>>
  /\ result = None
  /\ engine = "-"
  /\ tauReady = "unset"
  /\ loads = 0
  /\ queried = FALSE
  /\ liveAssignment = <<>>
  /\ liveUsed = {}
  /\ stack = <<>>
  /\ calls = 1
  /\ observed = {}
  /\ others = 0
  /\ solved = <<>>
  /\ busy = FALSE
  /\ captured = <<>>

\* the call has returned and the next one is made, as runBuiltInTests does
\* four times in a row: new arguments, everything else as the last call
\* left it
NextCall ==
  /\ pc = "done"
  /\ calls < MaxCalls
  /\ \E x \in CallInputs : grid' = x[1] /\ wordList' = x[2]
  /\ pc' = "idle"
  /\ calls' = calls + 1
  /\ UNCHANGED <<slots, crosses, result, engine, tauReady, loads, queried>>
  /\ UNCHANGED <<liveAssignment, liveUsed, stack, observed, others, solved>>
  /\ UNCHANGED <<busy, captured>>

NextReentry ==
  \/ StartSearch
  \/ BacktrackEnter
  \/ TryNext
  \/ ReturnFalse
  \/ ReturnTrue
  \/ NextCall

SpecReentry == InitCalls /\ [][NextReentry]_vars

\* C13: what solveJS returns is a function of the grid and the ordered word
\* list alone: a call returns the same whatever call was made before it,
\* and it starts from an empty assignment and an empty used set of its own.
C13_ResultDependsOnInputOnly ==
  /\ pc = "done" => result = solveJS(grid, wordList)
  /\ (pc = "enter" /\ stack = <<>>) => (liveAssignment = <<>> /\ liveUsed = {})

\* the second call of the process returned a Mapping for a grid with a
\* crossing
C13_Witness ==
  /\ calls = 2
  /\ pc = "done"
  /\ result.kind = "mapping"
  /\ Len(crosses) >= 1

-----------------------------------------------------------------------------
(* solveFor calls in sequence, with further calls waiting for the evaluator *)

InitTau ==
  /\ \E x \in TestInputs : grid = x[1] /\ wordList = x[2]
  /\ pc = "idle"
  /\ slots = <<>>
  /\ crosses = <<>>
  /\ result = None
  /\ engine = "-"
  /\ tauReady = "unset"
  /\ loads = 0
  /\ queried = FALSE
  /\ liveAssignment = <<>>
  /\ liveUsed = {}
  /\ stack = <<>>
  /\ calls = 1
  /\ observed = {}
  /\ others = 0
  /\ solved = <<>>
  /\ busy = FALSE
  /\ captured = <<>>

\* the next call of runBuiltInTests
NextTest ==
  /\ pc = "done"
  /\ calls < MaxCalls
  /\ \E x \in TestInputs : grid' = x[1] /\ wordList' = x[2]
  /\ pc' = "idle"
  /\ calls' = calls + 1
  /\ UNCHANGED <<slots, crosses, result, engine, tauReady, loads, queried>>
  /\ UNCHANGED <<liveAssignment, liveUsed, stack, observed, others, solved>>
  /\ UNCHANGED <<busy, captured>>

\* another solveFor call, on a grid with a slot, reaches
\* await ensureTauProlog() while calls are pending
OtherEnter ==
  /\ others < MaxOthers
  /\ others' = others + 1
  /\ tauReady' = ensureStarted
  /\ loads' = IF ensureStarted # tauReady THEN loads + 1 ELSE loads
  /\ UNCHANGED <<grid, wordList, pc, slots, crosses, result, engine, queried>>
  /\ UNCHANGED <<liveAssignment, liveUsed, stack, calls, observed, solved>>
  /\ UNCHANGED <<busy, captured>>

\* one of the waiting calls resumes with what _tauReady settled to
OtherResume ==
  /\ others > 0
  /\ tauReady \in {"pl", "null"}
  /\ others' = others - 1
  /\ observed' = observed \cup {tauReady}
  /\ UNCHANGED <<grid, wordList, pc, slots, crosses, result, engine, queried>>
  /\ UNCHANGED <<liveAssignment, liveUsed, stack, calls, tauReady, loads, solved>>
  /\ UNCHANGED <<busy, captured>>

NextTau ==
  \/ SolveForEnter
  \/ \E a, b, c \in BOOLEAN : TauSettles(a, b, c)
  \/ SolveForResume
  \/ \E ok \in BOOLEAN : Consult(ok)
  \/ \E o \in {"answer", "parseError", "runtimeError"} : Query(o)
  \/ NextTest
  \/ OtherEnter
  \/ OtherResume

SpecTau == InitTau /\ [][NextTau]_vars

\* C14: over every sequence and interleaving of solveFor calls the body of
\* ensureTauProlog starts at most once and is never started again; every
\* call resumes with the one outcome, and once that is null every call on a
\* grid with a slot returns what solveJS returns.
C14_InitializedOnce ==
  /\ loads <= 1
  /\ (loads = 0) <=> (tauReady = "unset")
  /\ Cardinality(observed) <= 1
  /\ observed \subseteq {tauReady}
  /\ (pc = "done" /\ tauReady = "null" /\ Len(computeSlots(grid)) >= 1) =>
       (engine = "fallback" /\ result = solveJS(grid, wordList))

\* the second call of the process also found the evaluator unavailable and
\* was answered by solveJS; the body had run once
C14_Witness ==
  /\ calls = 2
  /\ pc = "done"
  /\ tauReady = "null"
  /\ engine = "fallback"
  /\ result.kind = "mapping"
  /\ loads = 1
  /\ observed = {"null"}

-----------------------------------------------------------------------------
(* onSolve after solveFor has returned a Mapping: the projection *)

\* filled[rr][cc].ch = w[k]; w[k] past the end of w is undefined
WriteCh(filled, s, w, k) ==
  [filled EXCEPT ![CellOf(s, k)[1] + 1][CellOf(s, k)[2] + 1].ch =
     IF k < Len(w) THEN w[k + 1] ELSE NoCh]

\* the for loop over the offsets of slot s, from k
RECURSIVE WriteWord(_, _, _, _)
WriteWord(filled, s, w, k) ==
  IF k < s.len THEN WriteWord(WriteCh(filled, s, w, k), s, w, k + 1) ELSE filled

\* the for loop over slots, from index n: a slot without a word is skipped
RECURSIVE ProjectFrom(_, _, _, _)
ProjectFrom(filled, ss, m, n) ==
  IF n > Len(ss) THEN filled
  ELSE ProjectFrom(IF ss[n].id \in DOMAIN m /\ m[ss[n].id] # <<>>
                   THEN WriteWord(filled, ss[n], m[ss[n].id], 0)
                   ELSE filled,
                   ss, m, n + 1)

\* filled: a copy of g with the words of mapping written slot by slot
project(g, mapping) == ProjectFrom(g, computeSlots(g), mapping, 1)

\* onSolve writing the words into grid itself instead of a copy
OnSolveProjectInPlace ==
  /\ pc = "mapped"
  /\ grid' = project(grid, result.m)
  /\ solved' = <<project(grid, result.m)>>
  /\ pc' = "shown"
  /\ UNCHANGED <<wordList, slots, crosses, result, engine, tauReady, loads, queried>>
  /\ UNCHANGED <<liveAssignment, liveUsed, stack, calls, observed, others>>
  /\ UNCHANGED <<busy, captured>>

\* onSolve from the returned mapping to setSolved(filled)
OnSolveProject ==
  /\ pc = "mapped"
  /\ solved' = <<project(grid, result.m)>>
  /\ pc' = "shown"
  /\ UNCHANGED <<grid, wordList, slots, crosses, result, engine, tauReady, loads, queried>>
  /\ UNCHANGED <<liveAssignment, liveUsed, stack, calls, observed, others>>
  /\ UNCHANGED <<busy, captured>>

ProjectWords == WordPool \cup {<<"B", "A", "B">>}

\* every way to give each slot of g a word of its length, crossings and
\* distinctness aside
Mappings(g) ==
  {m \in [SlotIds(computeSlots(g)) -> ProjectWords] :
     \A s \in Range(computeSlots(g)) : Len(m[s.id]) = s.len}

InitProject ==
  /\ grid \in {g \in SolveGrids : Len(computeSlots(g)) >= 1}
  /\ \E m \in Mappings(grid) : result = Mapped(m)
  /\ wordList = <<>>
  /\ pc = "mapped"
  /\ slots = <<>>
  /\ crosses = <<>>
  /\ engine = "-"
  /\ tauReady = "unset"
  /\ loads = 0
  /\ queried = FALSE
  /\ liveAssignment = <<>>
  /\ liveUsed = {}
  /\ stack = <<>>
  /\ calls = 1
  /\ observed = {}
  /\ others = 0
  /\ solved = <<>>
  /\ busy = FALSE
  /\ captured = <<>>

NextProject == OnSolveProject

SpecProject == InitProject /\ [][NextProject]_vars

\* the two words of every crossing of g agree on the shared cell
CrossesAgree(g, m) ==
  \A n \in 1..Len(buildCrosses(computeSlots(g))) :
    LET x == buildCrosses(computeSlots(g))[n]
    IN CharAt(m[x.a], x.ia) = CharAt(m[x.b], x.ib)

\* the coordinates covered by some slot of g
Covered(g) ==
  UNION {{CellOf(s, k) : k \in 0..(s.len - 1)} : s \in Range(computeSlots(g))}

\* what C16 says of the grid shown, given the grid and the Mapping
ProjectionHolds ==
  pc = "shown" =>
    LET filled == solved[1]
    IN /\ NRows(filled) = NRows(grid)
       /\ \A r \in 0..(NRows(grid) - 1) :
            /\ Len(filled[r + 1]) = Len(grid[r + 1])
            /\ \A c \in 0..(NCols(grid) - 1) :
                 /\ At(filled, r, c).blocked = At(grid, r, c).blocked
                 /\ <<r, c>> \notin Covered(grid) =>
                      At(filled, r, c) = At(grid, r, c)
       /\ CrossesAgree(grid, result.m) =>
            \A s \in Range(computeSlots(grid)) : \A k \in 0..(s.len - 1) :
              At(filled, CellOf(s, k)[1], CellOf(s, k)[2]).ch
                = CharAt(result.m[s.id], k)

\* C16: the projection is a new grid in which every cell of every slot
\* holds the character of the slot's word at that offset; blocked flags
\* and the cells no slot covers are as in the original, and the original
\* grid is not changed.
C16_ProjectionWritesSlotsOnly ==
  [](ProjectionHolds) /\ [][grid' = grid]_vars

\* a Mapping that agrees on a crossing was projected over a pre-filled
\* cell that no slot covers, and the grid shown differs from the original
C16_Witness ==
  /\ pc = "shown"
  /\ CrossesAgree(grid, result.m)
  /\ Len(buildCrosses(computeSlots(grid))) >= 1
  /\ \E r \in 0..(NRows(grid) - 1), c \in 0..(NCols(grid) - 1) :
       <<r, c>> \notin Covered(grid) /\ At(grid, r, c).ch # NoCh
  /\ solved[1] # grid

\* C17: a Mapping whose two words disagree on the cell of a crossing is
\* signalled as an error by the projection; no grid is shown for it.
C17_ConflictIsSignalled ==
  (pc # "mapped" /\ ~CrossesAgree(grid, result.m)) =>
    (pc = "error" /\ solved = <<>>)

-----------------------------------------------------------------------------
(* Termination of the native search *)

\* the grids without pre-filled letters, with every word list
LiveInputs ==
  ({g \in SolveGrids : NFixed(g) = 0} \X WordLists) \cup TestInputs

InitLive ==
  /\ \E x \in LiveInputs : grid = x[1] /\ wordList = x[2]
  /\ pc = "idle"
  /\ slots = <<>>
  /\ crosses = <<>>
  /\ result = None
  /\ engine = "-"
  /\ tauReady = "unset"
  /\ loads = 0
  /\ queried = FALSE
  /\ liveAssignment = <<>>
  /\ liveUsed = {}
  /\ stack = <<>>
  /\ calls = 1
  /\ observed = {}
  /\ others = 0
  /\ solved = <<>>
  /\ busy = FALSE
  /\ captured = <<>>

\* a step of backtrack
SearchStep == BacktrackEnter \/ TryNext \/ ReturnFalse \/ ReturnTrue

\* backtrack is synchronous code: once called it keeps taking steps
SpecSearchLive == InitLive /\ [][NextSearch]_vars /\ WF_vars(SearchStep)

\* every pending invocation of backtrack took a slot that had no word when
\* it was entered, the one its caller had just given a word aside; its
\* loop index is within its domain
SearchBounded ==
  /\ Len(stack) <= Len(slots)
  /\ \A n \in 1..Len(stack) :
       /\ stack[n].s.id \in SlotIds(slots) \ DOMAIN stack[n].a0
       /\ stack[n].i \in 0..Len(stack[n].dom)
       /\ n < Len(stack) =>
            /\ stack[n].i >= 1
            /\ DOMAIN stack[n + 1].a0 = DOMAIN stack[n].a0 \cup {stack[n].s.id}

\* C21: once solveJS has called backtrack it returns, with a Mapping or
\* with none: every invocation of backtrack assigns a slot that was
\* unassigned, so no more invocations are pending than there are slots, and
\* the loop of an invocation moves through the entries of its domain once,
\* never back.
C21_SearchTerminates ==
  /\ [](SearchBounded)
  /\ [][\A n \in 1..Len(stack) :
          n <= Len(stack') => stack'[n].i >= stack[n].i]_vars
  /\ (pc = "enter") ~> (pc = "done" /\ result.kind \in {"mapping", "none"})

\* true is returned with as many invocations pending as there are slots,
\* one of them past its first candidate
C21_Witness ==
  /\ pc = "retTrue"
  /\ Len(slots) >= 3
  /\ Len(stack) = Len(slots)
  /\ \E n \in 1..Len(stack) : stack[n].i >= 2

-----------------------------------------------------------------------------
(* The order and the ends of the crossing constraints *)

\* the grid coordinate constraint x of crosses is about
CrossCell(x) == CellOf(SlotById(slots, x.a), x.ia)

\* row-major order of coordinates
RowMajorLess(x, y) == x[1] < y[1] \/ (x[1] = y[1] /\ x[2] < y[2])

\* C22: in every constraint buildCrosses emits a is a horizontal slot, b a
\* vertical one and a < b; no coordinate gives two constraints; the
\* constraints come in row-major order of the coordinate they share.
C22_CrossesHorizontalVerticalRowMajor ==
  pc = "crossed" =>
    /\ \A n \in 1..Len(crosses) :
         /\ SlotById(slots, crosses[n].a).dir = "H"
         /\ SlotById(slots, crosses[n].b).dir = "V"
         /\ crosses[n].a < crosses[n].b
         /\ CellOf(SlotById(slots, crosses[n].b), crosses[n].ib) = CrossCell(crosses[n])
    /\ \A n, m \in 1..Len(crosses) :
         n < m => RowMajorLess(CrossCell(crosses[n]), CrossCell(crosses[m]))

\* constraints of two rows, where a later constraint names a vertical slot
\* of lower id than an earlier one
C22_Witness ==
  /\ pc = "crossed"
  /\ \E n, m \in 1..Len(crosses) :
       /\ n < m
       /\ CrossCell(crosses[n])[1] < CrossCell(crosses[m])[1]
       /\ crosses[n].b > crosses[m].b

-----------------------------------------------------------------------------
(* The component: a pending Solve and the actions that change the grid *)

\* the shapes Apply Size and a pattern file can give the grid
UIShapes == (1..RawSide) \X (1..RawSide)

UIPatterns ==
  UNION {[1..d[1] -> [1..d[2] -> {OpenCell, BlockedCell}]] : d \in UIShapes}

\* what solveFor can resolve or reject with on g and wl: null at once on a
\* grid without slots; else the native result, the answer of the query,
\* null on a query error, or the rejection of a failed consult
SolveForOutcomes(g, wl) ==
  IF Len(computeSlots(g)) = 0 THEN {None}
  ELSE {solveJS(g, wl),
        queryAnswer(computeSlots(g), buildCrosses(computeSlots(g)), wl),
        None, Thrown}

InitUI ==
  /\ grid = make2D(RawSide, RawSide, BlockedCell)
  /\ wordList \in {wl \in WordLists : Len(wl) = FewWords}
  /\ pc = "ui"
  /\ slots = <<>>
  /\ crosses = <<>>
  /\ result = None
  /\ engine = "-"
  /\ tauReady = "unset"
  /\ loads = 0
  /\ queried = FALSE
  /\ liveAssignment = <<>>
  /\ liveUsed = {}
  /\ stack = <<>>
  /\ calls = 1
  /\ observed = {}
  /\ others = 0
  /\ solved = <<>>
  /\ busy = FALSE
  /\ captured = <<>>

\* applySize: rows and cols are the values of the two number inputs
applySize(rows, cols) ==
  /\ solved' = <<>>
  /\ grid' = make2D(rows, cols, BlockedCell)
  /\ UNCHANGED <<wordList, pc, slots, crosses, result, engine, tauReady, loads, queried>>
  /\ UNCHANGED <<liveAssignment, liveUsed, stack, calls, observed, others, busy, captured>>

\* toggleCell: nothing happens while busy
toggleCell(r, c) ==
  /\ ~busy
  /\ solved' = <<>>
  /\ grid' = [grid EXCEPT ![r + 1][c + 1] =
                [blocked |-> ~At(grid, r, c).blocked, ch |-> NoCh]]
  /\ UNCHANGED <<wordList, pc, slots, crosses, result, engine, tauReady, loads, queried>>
  /\ UNCHANGED <<liveAssignment, liveUsed, stack, calls, observed, others, busy, captured>>

onResetBlocks ==
  /\ solved' = <<>>
  /\ grid' = [r \in 1..Len(grid) |-> [c \in 1..Len(grid[r]) |-> BlockedCell]]
  /\ UNCHANGED <<wordList, pc, slots, crosses, result, engine, tauReady, loads, queried>>
  /\ UNCHANGED <<liveAssignment, liveUsed, stack, calls, observed, others, busy, captured>>

\* onImportPattern with a file that parses to the pattern g
onImportPattern(g) ==
  /\ solved' = <<>>
  /\ grid' = g
  /\ UNCHANGED <<wordList, pc, slots, crosses, result, engine, tauReady, loads, queried>>
  /\ UNCHANGED <<liveAssignment, liveUsed, stack, calls, observed, others, busy, captured>>

\* onSolve up to await solveFor(grid, words): the button is disabled while
\* busy; the call keeps the grid and the words of the render it was made in
OnSolveStart ==
  /\ ~busy
  /\ busy' = TRUE
  /\ solved' = <<>>
  /\ captured' = <<[grid |-> grid, words |-> wordList]>>
  /\ UNCHANGED <<grid, wordList, pc, slots, crosses, result, engine, tauReady, loads, queried>>
  /\ UNCHANGED <<liveAssignment, liveUsed, stack, calls, observed, others>>

\* onSolve after the await: no solution, the projection, or the catch; then
\* the finally
OnSolveFinish ==
  /\ busy
  /\ captured # <<>>
  /\ \E outcome \in SolveForOutcomes(captured[1].grid, captured[1].words) :
       /\ result' = outcome
       /\ solved' = IF outcome.kind = "mapping"
                    THEN <<project(captured[1].grid, outcome.m)>>
                    ELSE solved
  /\ busy' = FALSE
  /\ captured' = <<>>
  /\ UNCHANGED <<grid, wordList, pc, slots, crosses, engine, tauReady, loads, queried>>
  /\ UNCHANGED <<liveAssignment, liveUsed, stack, calls, observed, others>>

NextUI ==
  \/ \E d \in UIShapes : applySize(d[1], d[2])
  \/ \E r \in 0..(NRows(grid) - 1), c \in 0..(NCols(grid) - 1) : toggleCell(r, c)
  \/ onResetBlocks
  \/ \E g \in UIPatterns : onImportPattern(g)
  \/ OnSolveStart
  \/ OnSolveFinish

SpecUI == InitUI /\ [][NextUI]_vars

\* the two grids have the same shape and the same blocked cells
SamePattern(f, g) ==
  /\ Len(f) = Len(g)
  /\ \A r \in 1..Len(g) :
       /\ Len(f[r]) = Len(g[r])
       /\ \A c \in 1..Len(g[r]) : f[r][c].blocked = g[r][c].blocked

\* C23: whatever the component does while a Solve is pending, a solution
\* that is shown has the shape and the blocked cells of the current grid.
C23_SolutionMatchesGrid ==
  solved # <<>> => SamePattern(solved[1], grid)

====
